---------------------------- MODULE Spec2Model ----------------------------
(***************************************************************************)
(* Model of the remote-bitbang tick engine of cosim_jtag.                  *)
(*                                                                         *)
(* Three translation units/builds share one structure and are told apart   *)
(* by the variable unit:                                                   *)
(*   "cosim_exit"  src/cosim_jtag.c built without USE_VHPI (FAIL exits)    *)
(*   "cosim_vhpi"  src/cosim_jtag.c built with USE_VHPI (FAIL reports and  *)
(*                 requests a stop, then RETURNS to the failing function)  *)
(*   "vhpi_jtag"   src/vhpi_jtag.c (fprintf + exit)                        *)
(*                                                                         *)
(* A tick is one action.  The system calls it makes are answered by the    *)
(* kernel from the state of the sockets; where the kernel can answer in    *)
(* more than one way (a failure), every answer is a possible successor.    *)
(* A tick that blocks in accept() or read() stays suspended inside the     *)
(* call until the peer acts; AcceptReturns/ReadReturns run the rest of it. *)
(***************************************************************************)
EXTENDS Integers, Sequences, FiniteSets, TLC

\* ------------------------------------------------------------ constants

\* enum HDL_LOGIC_STATES
HDL_U == 0
HDL_X == 1
HDL_0 == 2
HDL_1 == 3
HDL_Z == 4
HDL_W == 5
HDL_L == 6
HDL_H == 7
HDL_D == 8

\* The nine values of STD_ULOGIC, the domain of the sampled input tdo.
Logic == HDL_U..HDL_D

\* ASCII codes of the command bytes named by the case labels.
CH_B == 66
CH_b == 98
CH_R == 82
CH_Q == 81
CH_0 == 48
CH_7 == 55
CH_r == 114
CH_u == 117
\* The response bytes '0' and '1' are CH_0 and CH_0 + 1.
CH_1 == 49

\* listen(listen_socket, 0): the backlog argument.
Backlog == 0

\* File descriptors as the program sees them: -1 is "no socket".
NoSocket == -1
ListenFd == 3
DataFd == 4

\* "no byte" / "no value" marker for the per-tick record.
NoByte == -1

\* ------------------------------------------------------------ bounds

\* Unread bytes the kernel holds for the active connection.
MaxBuf == 2

\* Bytes a peer sends in the traffic model: two 3-bit writes that differ in
\* every bit ('2' = 010, '5' = 101), one reset write ('s' = 01), a read
\* request and a quit.  DecodeSpec below covers all 256 values.
Bytes == {50, 53, 115, CH_R, CH_Q}

\* Sampled inputs in the traffic model: a low, the two highs and one value
\* that is neither.  DecodeSpec below covers all nine.
TdoSamples == {HDL_0, HDL_1, HDL_H, HDL_Z}

AllBytes == 0..255

\* An uninitialized `char buffer` can hold any value; these stand for it.
UninitBytes == Bytes

VARIABLES
  unit,           \* which translation unit / build runs
  listen_socket,  \* static int listen_socket
  data_socket,    \* static int data_socket
  state,          \* static state_t state / static char state[5]
  run,            \* "idle" | "blocked_accept" | "blocked_read" | "exited" | "stopped"
  lmode,          \* kernel: listening socket "none" | "ok" | "blocking" | "dead"
  nOpen,          \* kernel: accepted descriptors not yet closed
  pending,        \* kernel: peers connected to the endpoint, not yet accepted
  rx,             \* kernel: unread bytes of the connection behind data_socket
  peerOpen,       \* kernel: the peer of that connection has not closed its end
  tdoHeld,        \* tdo of the tick suspended in a blocking call
  last            \* what the most recent tick did

vars == <<unit, listen_socket, data_socket, state, run, lmode, nOpen,
          pending, rx, peerOpen, tdoHeld, last>>

Units == {"cosim_exit", "cosim_vhpi", "vhpi_jtag"}

\* ------------------------------------------------------------ macros

\* HDL_TO_INT without the weak high.
HDL_TO_INT_noweak(hdl) == hdl = HDL_1

HDL_TO_INT(hdl) == hdl = HDL_1 \/ hdl = HDL_H

\* The integer stored without conversion to a logic value.
INT_TO_HDL_raw(i) == i

INT_TO_HDL(i) == IF i # 0 THEN HDL_1 ELSE HDL_0

\* v & mask for a mask with a single bit set.
BitAnd(v, mask) == ((v \div mask) % 2) * mask

\* The initializer as it was before version 0.2: resets unknown too.
InitialSignals_v01 ==
  [tck |-> HDL_X, tms |-> HDL_X, tdi |-> HDL_X, trst |-> HDL_X, srst |-> HDL_X]

\* static state_t state = {HDL_X, HDL_X, HDL_X, HDL_0, HDL_0};
InitialSignals ==
  [tck |-> HDL_X, tms |-> HDL_X, tdi |-> HDL_X, trst |-> HDL_0, srst |-> HDL_0]

\* ------------------------------------------------------------ decoders

\* CosimWrite with the masks of tms and tdi exchanged.
CosimWrite_swapped(s, buffer) ==
  LET val == buffer - CH_0
  IN  [s EXCEPT !.tck = INT_TO_HDL(BitAnd(val, 4)),
                !.tms = INT_TO_HDL(BitAnd(val, 1)),
                !.tdi = INT_TO_HDL(BitAnd(val, 2))]

\* state->tdi assigned from the stored tms instead of from the received value.
CosimWrite_stale(s, buffer) ==
  LET val == buffer - CH_0
  IN  [s EXCEPT !.tck = INT_TO_HDL(BitAnd(val, 4)),
                !.tms = INT_TO_HDL(BitAnd(val, 2)),
                !.tdi = s.tms]

\* cosim_jtag.c, case '0'..'7'
CosimWrite(s, buffer) ==
  LET val == buffer - CH_0
  IN  [s EXCEPT !.tck = INT_TO_HDL(BitAnd(val, 4)),
                !.tms = INT_TO_HDL(BitAnd(val, 2)),
                !.tdi = INT_TO_HDL(BitAnd(val, 1))]

\* cosim_jtag.c, case 'r'..'u'
CosimReset(s, buffer) ==
  LET val == buffer - CH_r
  IN  [s EXCEPT !.trst = INT_TO_HDL(BitAnd(val, 2)),
                !.srst = INT_TO_HDL(BitAnd(val, 1))]

\* vhpi_jtag.c
set_state(s, tck, tms, tdi) ==
  [s EXCEPT !.tck = INT_TO_HDL(tck), !.tms = INT_TO_HDL(tms), !.tdi = INT_TO_HDL(tdi)]

set_reset(s, trst, srst) ==
  [s EXCEPT !.trst = INT_TO_HDL(trst), !.srst = INT_TO_HDL(srst)]

\* case '3' calling set_state with the arguments of case '2'.
VhpiWrite_slip(s, buffer) ==
  CASE buffer = 48 -> set_state(s, 0, 0, 0)
    [] buffer = 49 -> set_state(s, 0, 0, 1)
    [] buffer = 50 -> set_state(s, 0, 1, 0)
    [] buffer = 51 -> set_state(s, 0, 1, 0)
    [] buffer = 52 -> set_state(s, 1, 0, 0)
    [] buffer = 53 -> set_state(s, 1, 0, 1)
    [] buffer = 54 -> set_state(s, 1, 1, 0)
    [] buffer = 55 -> set_state(s, 1, 1, 1)
    [] OTHER -> s

\* vhpi_jtag.c, one case label per byte
VhpiWrite(s, buffer) ==
  CASE buffer = 48 -> set_state(s, 0, 0, 0)
    [] buffer = 49 -> set_state(s, 0, 0, 1)
    [] buffer = 50 -> set_state(s, 0, 1, 0)
    [] buffer = 51 -> set_state(s, 0, 1, 1)
    [] buffer = 52 -> set_state(s, 1, 0, 0)
    [] buffer = 53 -> set_state(s, 1, 0, 1)
    [] buffer = 54 -> set_state(s, 1, 1, 0)
    [] buffer = 55 -> set_state(s, 1, 1, 1)
    [] OTHER -> s

\* VhpiReset with the arguments of case 't' copied from case 's'.
VhpiReset_slip(s, buffer) ==
  CASE buffer = 114 -> set_reset(s, 0, 0)
    [] buffer = 115 -> set_reset(s, 0, 1)
    [] buffer = 116 -> set_reset(s, 0, 1)
    [] buffer = 117 -> set_reset(s, 1, 1)
    [] OTHER -> s

VhpiReset(s, buffer) ==
  CASE buffer = 114 -> set_reset(s, 0, 0)
    [] buffer = 115 -> set_reset(s, 0, 1)
    [] buffer = 116 -> set_reset(s, 1, 0)
    [] buffer = 117 -> set_reset(s, 1, 1)
    [] OTHER -> s

\* IsWrite with one case label too many ('8').
IsWrite_offbyone(buffer) == buffer \in CH_0..(CH_7 + 1)

IsWrite(buffer) == buffer \in CH_0..CH_7

IsReset(buffer) == buffer \in CH_r..CH_u

\* ------------------------------------------------------------ FAIL

\* Whether FAIL(...) ends the process (exit(EXIT_FAILURE)).  With USE_VHPI it
\* is vhpi_assert + vhpi_control(vhpiStop): both return, and the statement
\* after the FAIL block runs.
ExitsOnFail(u) == u # "cosim_vhpi"

FAIL(m) ==
  IF ExitsOnFail(m.unit)
  THEN [m EXCEPT !.run = "exited", !.last.fails = @ + 1]
  ELSE [m EXCEPT !.stop = TRUE, !.last.fails = @ + 1]

\* The code after a FAIL block: reached only if the process still runs.
Running(m) == m.run = "idle"

\* ------------------------------------------------------------ create_socket

SetupOutcomes == {"ok", "socket", "bind", "fcntl", "listen"}

\* f names the call that fails, if any.
create_socket(m, f) ==
  LET \* listen_socket = socket(...); if (listen_socket == -1) FAIL
      s1 == IF f = "socket"
            THEN FAIL([m EXCEPT !.listen_socket = NoSocket, !.lmode = "none",
                                !.last.setup = f])
            ELSE [m EXCEPT !.listen_socket = ListenFd, !.lmode = "dead",
                           !.last.setup = f]
      \* ret = bind(...); if (ret == -1) FAIL.  bind(-1) fails too.
      bindFails == f \in {"socket", "bind"}
      s2 == IF ~Running(s1) THEN s1
            ELSE IF bindFails THEN FAIL(s1) ELSE s1
      \* fcntl(listen_socket, F_SETFL, O_NONBLOCK); result not looked at
      nonblock == f \notin {"socket", "fcntl"}
      \* ret = listen(...); if (ret == -1) FAIL.  An invalid or unbound
      \* socket cannot listen.
      listenFails == bindFails \/ f = "listen"
      s3 == IF ~Running(s2) THEN s2
            ELSE IF listenFails THEN FAIL(s2)
            ELSE [s2 EXCEPT !.lmode = IF nonblock THEN "ok" ELSE "blocking"]
  IN  s3

create_socket_all(m) == { create_socket(m, f) : f \in SetupOutcomes }

\* ------------------------------------------------------------ accept_connection

\* What accept(listen_socket) can answer in the kernel state of m.
AcceptOutcomes(m) ==
  IF m.lmode \in {"none", "dead"} THEN {"err"}
  ELSE IF m.pending > 0 THEN {"conn", "err"}
  ELSE IF m.lmode = "ok" THEN {"eagain", "err"}
  ELSE {"block", "err"}

\* Bytes the accepted peer sent between connecting and being accepted.
PreSent == {<<>>} \cup { <<b>> : b \in Bytes }

accept_connection(m, a, pre) ==
  CASE a = "conn" ->
         [m EXCEPT !.data_socket = DataFd, !.pending = @ - 1, !.nOpen = @ + 1,
                   !.rx = pre, !.peerOpen = TRUE, !.last.acc = a]
    [] a = "eagain" ->
         [m EXCEPT !.data_socket = NoSocket, !.last.acc = a]
    [] a = "err" ->
         FAIL([m EXCEPT !.data_socket = NoSocket, !.last.acc = a])
    [] a = "block" ->
         [m EXCEPT !.run = "blocked_accept", !.last.acc = a]

accept_connection_all(m) ==
  UNION { IF a = "conn"
          THEN { accept_connection(m, a, pre) : pre \in PreSent }
          ELSE { accept_connection(m, a, <<>>) }
        : a \in AcceptOutcomes(m) }

\* ------------------------------------------------------------ process_socket

\* What read(data_socket, &buffer, 1) can answer.  accept() does not hand
\* the listener's O_NONBLOCK to the new socket, so with nothing to read and
\* the peer still there the call waits.  "err" is any -1 (ECONNRESET, EINTR,
\* or EAGAIN on a system whose accepted sockets inherit O_NONBLOCK).
ReadOutcomes(m) ==
  IF m.rx # <<>> THEN {"byte", "err"}
  ELSE IF ~m.peerOpen THEN {"eof", "err"}
  ELSE {"block", "err"}

\* What write(data_socket, &val, 1) can answer.
WriteOutcomes(m) == IF m.peerOpen THEN {"ok", "err"} ELSE {"err"}

\* CloseData that also puts the signals back to their initial values.
CloseData_resets(m) ==
  [m EXCEPT !.data_socket = NoSocket, !.nOpen = @ - 1, !.rx = <<>>,
            !.peerOpen = FALSE, !.state = InitialSignals]

\* close(data_socket); data_socket = -1;
CloseData(m) ==
  [m EXCEPT !.data_socket = NoSocket, !.nOpen = @ - 1, !.rx = <<>>,
            !.peerOpen = FALSE]

\* The response byte sent by two write() calls.
ReadRequest_twice(m, tdo, w) ==
  LET val == IF HDL_TO_INT(tdo) THEN CH_1 ELSE CH_0
      m1 == [m EXCEPT !.last.tdoRead = tdo]
  IN  IF w = "ok" THEN [m1 EXCEPT !.last.wr = Append(Append(@, val), val)]
      ELSE FAIL(m1)

\* case 'R'
ReadRequest(m, tdo, w) ==
  LET val == IF HDL_TO_INT(tdo) THEN CH_1 ELSE CH_0
      m1 == [m EXCEPT !.last.tdoRead = tdo]
  IN  IF w = "ok" THEN [m1 EXCEPT !.last.wr = Append(@, val)]
      ELSE FAIL(m1)

\* '0'..'7' and 'r'..'u' as each unit decodes them
DecodeWrite(u, s, buffer) ==
  IF u = "vhpi_jtag" THEN VhpiWrite(s, buffer) ELSE CosimWrite(s, buffer)

DecodeReset(u, s, buffer) ==
  IF u = "vhpi_jtag" THEN VhpiReset(s, buffer) ELSE CosimReset(s, buffer)

\* switch (buffer), for each answer write() can give
Switch(m, tdo, buffer) ==
  LET m1 == [m EXCEPT !.last.dec = buffer]
  IN  IF buffer = CH_B \/ buffer = CH_b THEN {m1}
      ELSE IF buffer = CH_R
        THEN { ReadRequest(m1, tdo, w) : w \in WriteOutcomes(m1) }
      ELSE IF buffer = CH_Q THEN {CloseData(m1)}
      ELSE IF IsWrite(buffer)
        THEN {[m1 EXCEPT !.state = DecodeWrite(m.unit, @, buffer)]}
      ELSE IF IsReset(buffer)
        THEN {[m1 EXCEPT !.state = DecodeReset(m.unit, @, buffer)]}
      ELSE {m1}

\* process_socket from the return of read() on: r is read's answer.
AfterRead(m, tdo, r) ==
  CASE r = "byte" ->
         Switch([m EXCEPT !.rx = Tail(@), !.last.rd = r], tdo, Head(m.rx))
    [] r = "eof" ->
         \* if (ret == 0) return;
         {[m EXCEPT !.last.rd = r]}
    [] r = "err" ->
         \* if (ret == -1) FAIL; then ret != 0 and switch (buffer) runs on
         \* the buffer read() never filled.
         LET m1 == FAIL([m EXCEPT !.last.rd = r])
         IN  IF ~Running(m1) THEN {m1}
             ELSE UNION { Switch(m1, tdo, g) : g \in UninitBytes }
    [] r = "block" ->
         {[m EXCEPT !.run = "blocked_read", !.last.rd = r]}

process_socket_all(m, tdo) ==
  UNION { AfterRead(m, tdo, r) : r \in ReadOutcomes(m) }

\* ------------------------------------------------------------ tick

NoOut == [tck |-> NoByte, tms |-> NoByte, tdi |-> NoByte, trst |-> NoByte, srst |-> NoByte]

\* drive_from_state called only from inside the branch that decoded a byte.
drive_from_state_stale(m) ==
  IF ~Running(m) THEN m
  ELSE [m EXCEPT !.last.out = IF m.last.dec = NoByte THEN NoOut ELSE m.state,
                 !.run = IF m.stop THEN "stopped" ELSE "idle"]

\* drive_from_state / return state; then control is back with the simulator,
\* which honours a stop requested by vhpi_control(vhpiStop).
drive_from_state(m) ==
  IF ~Running(m) THEN m
  ELSE [m EXCEPT !.last.out = m.state,
                 !.run = IF m.stop THEN "stopped" ELSE "idle"]

FreshLast ==
  [setup |-> "none", acc |-> "none", rd |-> "none", dec |-> NoByte,
   tdoRead |-> NoByte, wr |-> <<>>, fails |-> 0, out |-> NoOut]

\* The tick without its test of listen_socket.
TickSetup_always(m) == create_socket_all(m)

\* if (listen_socket == -1) create_socket();
TickSetup(m) ==
  IF m.listen_socket = NoSocket THEN create_socket_all(m) ELSE {m}

\* The tick without its test of data_socket.
CallsAccept_always(m) == TRUE

\* if (data_socket == -1) accept_connection();
CallsAccept(m) == m.data_socket = NoSocket

TickAccept(m) ==
  IF ~Running(m) THEN {m}
  ELSE IF CallsAccept(m) THEN accept_connection_all(m) ELSE {m}

\* if (data_socket != -1) process_socket(tdo, &state);
TickProcess(m, tdo) ==
  IF ~Running(m) THEN {m}
  ELSE IF m.data_socket # NoSocket THEN process_socket_all(m, tdo) ELSE {m}

TickFromProcess(ms, tdo) ==
  { drive_from_state(m3) : m3 \in UNION { TickProcess(m2, tdo) : m2 \in ms } }

\* cosim_jtag_tick / vhpi_jtag_tick: every way one call can go
cosim_jtag_tick(m, tdo) ==
  TickFromProcess(UNION { TickAccept(m1) : m1 \in TickSetup(m) }, tdo)

\* ------------------------------------------------------------ state machine

Machine ==
  [unit |-> unit, listen_socket |-> listen_socket, data_socket |-> data_socket,
   state |-> state, run |-> run, stop |-> FALSE, lmode |-> lmode,
   nOpen |-> nOpen, pending |-> pending, rx |-> rx, peerOpen |-> peerOpen,
   last |-> last]

Becomes(m, held) ==
  /\ listen_socket' = m.listen_socket
  /\ data_socket' = m.data_socket
  /\ state' = m.state
  /\ run' = m.run
  /\ lmode' = m.lmode
  /\ nOpen' = m.nOpen
  /\ pending' = m.pending
  /\ rx' = m.rx
  /\ peerOpen' = m.peerOpen
  /\ last' = m.last
  /\ tdoHeld' = IF m.run \in {"blocked_accept", "blocked_read"} THEN held ELSE NoByte
  /\ UNCHANGED unit

Init ==
  /\ unit \in Units
  /\ listen_socket = NoSocket
  /\ data_socket = NoSocket
  /\ state = InitialSignals
  /\ run = "idle"
  /\ lmode = "none"
  /\ nOpen = 0
  /\ pending = 0
  /\ rx = <<>>
  /\ peerOpen = FALSE
  /\ tdoHeld = NoByte
  /\ last = FreshLast

\* The simulator calls the tick entry point on a rising clock edge.
TickWith(inputs) ==
  /\ run = "idle"
  /\ \E tdo \in inputs :
       \E m \in cosim_jtag_tick([Machine EXCEPT !.last = FreshLast], tdo) :
         Becomes(m, tdo)

Tick == TickWith(TdoSamples)

\* A tick suspended in accept(): the call returns once a peer is pending
\* (or fails), and the tick goes on from there.
AcceptReturns ==
  /\ run = "blocked_accept"
  /\ \E a \in AcceptOutcomes(Machine) \ {"block"} :
       \E pre \in (IF a = "conn" THEN PreSent ELSE {<<>>}) :
         \E m \in TickFromProcess(
                    {accept_connection([Machine EXCEPT !.run = "idle"], a, pre)},
                    tdoHeld) :
           Becomes(m, tdoHeld)

\* A tick suspended in read(): the call returns once a byte is there, the
\* peer has closed, or it fails, and the tick goes on from there.
ReadReturns ==
  /\ run = "blocked_read"
  /\ \E r \in ReadOutcomes(Machine) \ {"block"} :
       \E m3 \in AfterRead([Machine EXCEPT !.run = "idle"], tdoHeld, r) :
         Becomes(drive_from_state(m3), tdoHeld)

\* The process is there and has not been stopped.
Alive == run \notin {"exited", "stopped"}

\* A suspended call returns as soon as the kernel can answer it: the peers'
\* next steps come after the return.
CallCanReturn ==
  \/ run = "blocked_accept" /\ pending > 0
  \/ run = "blocked_read" /\ (rx # <<>> \/ ~peerOpen)

PeerMayAct == Alive /\ ~CallCanReturn

\* A debugger connects to the endpoint.  With backlog 0 the kernel queues a
\* connection while no more than Backlog are waiting.
PeerConnect ==
  /\ PeerMayAct
  /\ lmode \in {"ok", "blocking"}
  /\ pending <= Backlog
  /\ pending' = pending + 1
  /\ UNCHANGED <<unit, listen_socket, data_socket, state, run, lmode, nOpen,
                 rx, peerOpen, tdoHeld, last>>

\* The connected debugger sends one byte.
PeerSend ==
  /\ PeerMayAct
  /\ nOpen > 0
  /\ peerOpen
  /\ Len(rx) < MaxBuf
  /\ \E b \in Bytes : rx' = Append(rx, b)
  /\ UNCHANGED <<unit, listen_socket, data_socket, state, run, lmode, nOpen,
                 pending, peerOpen, tdoHeld, last>>

\* The connected debugger closes its end.
PeerClose ==
  /\ PeerMayAct
  /\ nOpen > 0
  /\ peerOpen
  /\ peerOpen' = FALSE
  /\ UNCHANGED <<unit, listen_socket, data_socket, state, run, lmode, nOpen,
                 pending, rx, tdoHeld, last>>

Next ==
  \/ Tick
  \/ AcceptReturns
  \/ ReadReturns
  \/ PeerConnect
  \/ PeerSend
  \/ PeerClose

Spec == Init /\ [][Next]_vars

\* ------------------------------------------------------------ decoder runs

\* The SignalStates the decoders can leave behind: tck, tms, tdi are written
\* together, trst and srst are written together.
SignalStates ==
  { [tck |-> a[1], tms |-> a[2], tdi |-> a[3], trst |-> r[1], srst |-> r[2]] :
      a \in {<<HDL_X, HDL_X, HDL_X>>} \cup ({HDL_0, HDL_1} \X {HDL_0, HDL_1} \X {HDL_0, HDL_1}),
      r \in {HDL_0, HDL_1} \X {HDL_0, HDL_1} }

\* A session in mid-flight: listening, one peer accepted, any SignalState,
\* and any one of the 256 byte values waiting to be read.
DecodeInit ==
  /\ unit \in Units
  /\ listen_socket = ListenFd
  /\ data_socket = DataFd
  /\ state \in SignalStates
  /\ run = "idle"
  /\ lmode = "ok"
  /\ nOpen = 1
  /\ pending = 0
  /\ \E b \in AllBytes : rx = <<b>>
  /\ peerOpen = TRUE
  /\ tdoHeld = NoByte
  /\ last = FreshLast

\* The tick with any of the nine logic values on tdo.
DecodeTick == TickWith(Logic)

DecodeSpec == DecodeInit /\ [][DecodeTick]_vars

\* The bytes of the two write cases of the switch.
RepeatBytes == (CH_0..CH_7) \cup (CH_r..CH_u)

\* A session in mid-flight whose peer has sent the same write byte twice.
RepeatInit ==
  /\ unit \in Units
  /\ listen_socket = ListenFd
  /\ data_socket = DataFd
  /\ state \in SignalStates
  /\ run = "idle"
  /\ lmode = "ok"
  /\ nOpen = 1
  /\ pending = 0
  /\ \E b \in RepeatBytes : rx = <<b, b>>
  /\ peerOpen = TRUE
  /\ tdoHeld = NoByte
  /\ last = FreshLast

RepeatSpec == RepeatInit /\ [][DecodeTick]_vars

\* ------------------------------------------------------------ claims

\* What the protocol table expects, written without the model's decoders.
BitOf(v, k) == (v \div (2 ^ k)) % 2

Driven(bit) == IF bit = 1 THEN HDL_1 ELSE HDL_0

WriteRange == 48..55

ResetRange == 114..117

PowerOn ==
  [tck |-> HDL_X, tms |-> HDL_X, tdi |-> HDL_X, trst |-> HDL_0, srst |-> HDL_0]

Connected == data_socket # NoSocket

\* C1: a tick whose read() returns 0 (the peer closed its end) closes the
\* active connection and leaves the session Unconnected, without a fatal
\* error.
C1_ZeroReadDisconnects ==
  (lmode = "ok" /\ last.rd = "eof")
    => (data_socket = NoSocket /\ nOpen = 0 /\ last.fails = 0)

\* C2: a tick on a connection whose peer is silent (nothing to read, peer
\* still there) returns to the caller at once, with no byte decoded, the
\* SignalState and the connection as they were, and no fatal error.  (A
\* read() that fails outright is C12's case and is left out here.)
C2_SilentPeerYieldsNoData ==
  [][ (lmode = "ok" /\ run = "idle" /\ Connected /\ rx = <<>> /\ peerOpen
         /\ last' # last)
        => \/ last'.rd = "err"
           \/ /\ run' = "idle"
              /\ last'.dec = NoByte
              /\ last'.fails = 0
              /\ state' = state
              /\ data_socket' = data_socket ]_vars

\* C3: decoding a byte b in '0'..'7' sets tck, tms, tdi to driven-1/driven-0
\* by bits 2, 1, 0 of b - '0', leaves trst and srst as they were, writes no
\* response byte and keeps the connection.
C3_WriteSetsThreeBits ==
  [][ last'.dec \in WriteRange =>
        LET v == last'.dec - 48
        IN  /\ state'.tck = Driven(BitOf(v, 2))
            /\ state'.tms = Driven(BitOf(v, 1))
            /\ state'.tdi = Driven(BitOf(v, 0))
            /\ state'.trst = state.trst
            /\ state'.srst = state.srst
            /\ last'.wr = <<>>
            /\ data_socket' = DataFd
            /\ nOpen' = 1 ]_vars

\* '6' was read and decoded from a state whose resets were (1, 0).
C3_Witness ==
  /\ last.rd = "byte"
  /\ last.dec = 54
  /\ state = [tck |-> HDL_1, tms |-> HDL_1, tdi |-> HDL_0, trst |-> HDL_1, srst |-> HDL_0]

\* C4: decoding a byte b in 'r'..'u' sets trst, srst to driven-1/driven-0 by
\* bits 1, 0 of b - 'r', leaves tck, tms, tdi as they were (unknown
\* included), writes no response byte and keeps the connection.
C4_ResetSetsTwoBits ==
  [][ last'.dec \in ResetRange =>
        LET v == last'.dec - 114
        IN  /\ state'.trst = Driven(BitOf(v, 1))
            /\ state'.srst = Driven(BitOf(v, 0))
            /\ state'.tck = state.tck
            /\ state'.tms = state.tms
            /\ state'.tdi = state.tdi
            /\ last'.wr = <<>>
            /\ data_socket' = DataFd
            /\ nOpen' = 1 ]_vars

\* 't' was read and decoded while tck, tms, tdi were still unknown.
C4_Witness ==
  /\ last.rd = "byte"
  /\ last.dec = 116
  /\ state = [tck |-> HDL_X, tms |-> HDL_X, tdi |-> HDL_X, trst |-> HDL_1, srst |-> HDL_0]

\* C5: decoding 'R' hands exactly one response byte to write(): '1' if the
\* tick's tdo is HDL_1 or HDL_H, '0' for the seven other logic values; the
\* SignalState is unchanged and the connection kept.  The one other way out
\* is that write() itself fails, which is a fatal error of the tick.
C5_ReadRequestAnswers ==
  [][ last'.dec = 82 =>
        /\ last'.tdoRead \in 0..8
        /\ \/ last'.wr = << IF last'.tdoRead \in {3, 7} THEN 49 ELSE 48 >>
           \/ last'.wr = <<>> /\ last'.fails > 0
        /\ state' = state
        /\ data_socket' = DataFd
        /\ nOpen' = 1 ]_vars

\* 'R' was read with tdo weak-high and answered '1'.
C5_Witness ==
  /\ last.rd = "byte"
  /\ last.dec = 82
  /\ last.tdoRead = HDL_H
  /\ last.wr = <<49>>
  /\ last.fails = 0

\* The same with a tdo that is neither high nor low, answered '0'.
C5_WitnessLow ==
  /\ last.rd = "byte"
  /\ last.dec = 82
  /\ last.tdoRead = HDL_Z
  /\ last.wr = <<48>>

\* What decoding byte b is expected to make of SignalState s.
Effect(s, b) ==
  IF b \in WriteRange
  THEN [s EXCEPT !.tck = Driven(BitOf(b - 48, 2)),
                 !.tms = Driven(BitOf(b - 48, 1)),
                 !.tdi = Driven(BitOf(b - 48, 0))]
  ELSE IF b \in ResetRange
  THEN [s EXCEPT !.trst = Driven(BitOf(b - 114, 1)),
                 !.srst = Driven(BitOf(b - 114, 0))]
  ELSE s

\* C6: the tick that decodes 'Q' ends with the connection closed and the
\* session Unconnected; a tick that finds a peer pending while Unconnected
\* accepts it (unless accept() itself fails); and the SignalState changes in
\* no step but one that decodes a write or reset byte, so what is seen and
\* driven after the reconnect is what was there before the 'Q'.
C6_QuitThenReconnect ==
  [][ /\ last'.dec = 81 =>
           (data_socket' = NoSocket /\ nOpen' = 0 /\ state' = state)
      /\ (run = "idle" /\ ~Connected /\ pending > 0) =>
           /\ last'.acc \in {"conn", "err"}
           /\ last'.acc = "conn" =>
                /\ pending' = pending - 1
                /\ \/ data_socket' = DataFd /\ nOpen' = 1
                   \/ last'.dec = 81
      /\ state' # state => last'.dec \in (WriteRange \cup ResetRange)
      /\ last'.out # NoOut => last'.out = state' ]_vars

\* A peer was accepted and its read request served in a tick that drove a
\* SignalState written on an earlier connection (which 'Q' had closed: a
\* connection is closed in no other way).
C6_Witness ==
  /\ last.acc = "conn"
  /\ last.dec = 82
  /\ state = [tck |-> HDL_1, tms |-> HDL_0, tdi |-> HDL_1, trst |-> HDL_0, srst |-> HDL_1]
  /\ last.out = state

\* C7: at most one accepted connection is open at any time, data_socket
\* names it, and a pending peer leaves the queue only in a step that starts
\* with no connection active.
C7_AtMostOneConnection ==
  [][ /\ nOpen' <= 1
      /\ (nOpen' = 1) <=> (data_socket' # NoSocket)
      /\ pending' < pending => (data_socket = NoSocket /\ nOpen = 0) ]_vars

\* A tick read a byte from the active connection and returned while a second
\* peer was waiting on the endpoint; that peer is still waiting.
C7_Witness ==
  /\ nOpen = 1
  /\ Connected
  /\ pending = 1
  /\ run = "idle"
  /\ last.acc = "none"
  /\ last.rd = "byte"

\* C8: every step leaves the unread bytes alone, or appends one (the peer
\* sends), or takes exactly the first unread byte and gives it its effect
\* ('Q' drops the connection with what is behind it); on a connection just
\* accepted the one byte decoded is the first the peer had sent.  The
\* SignalState changes in no other way: after n ticks exactly the first
\* min(n, sent) bytes have taken effect.  (Stated for an endpoint set up
\* without a failure.)
C8_OneByteInOrder ==
  [][ \/ lmode' # "ok"
      \/ rx' = rx /\ state' = state
      \/ /\ Len(rx') = Len(rx) + 1
         /\ SubSeq(rx', 1, Len(rx)) = rx
         /\ state' = state
      \/ /\ rx # <<>>
         /\ last'.rd = "byte"
         /\ last'.dec = Head(rx)
         /\ state' = Effect(state, Head(rx))
         /\ rx' = Tail(rx) \/ (Head(rx) = 81 /\ rx' = <<>>)
      \/ /\ ~Connected
         /\ last'.acc = "conn"
         /\ last'.rd = "byte"
         /\ rx' = <<>>
         /\ state' = Effect(state, last'.dec) ]_vars

\* C9: the SignalState starts as (unknown, unknown, unknown, driven-0,
\* driven-0), and from that state every step that does not decode a write or
\* reset byte leaves it so and drives exactly it, if the tick returns at all.
C9_PowerOnUntilWrite ==
  /\ state = PowerOn
  /\ [][ (state = PowerOn /\ last'.dec \notin (WriteRange \cup ResetRange))
           => (state' = PowerOn /\ last'.out \in {NoOut, PowerOn}) ]_vars

\* A peer was accepted and a read request answered; the tick still drove the
\* power-on values.
C9_Witness ==
  /\ last.acc = "conn"
  /\ last.dec = 82
  /\ last.wr # <<>>
  /\ last.out = PowerOn

\* C10: every byte value read is decoded, and the tick returns; a byte
\* outside '0'..'7' and 'r'..'u' leaves all five signals as they were, a
\* byte other than 'R' writes nothing, a byte other than 'Q' keeps the
\* connection.
C10_DecodeTotalAndFramed ==
  [][ /\ (Len(rx') < Len(rx) /\ last'.rd = "byte") =>
           (last'.dec = Head(rx) /\ last'.dec \in 0..255)
      /\ (last'.rd = "byte" /\ last'.fails = 0) =>
           (run' = "idle" /\ last'.out = state')
      /\ last'.dec # NoByte =>
           /\ last'.dec \notin (WriteRange \cup ResetRange) => state' = state
           /\ last'.dec # 82 => last'.wr = <<>>
           /\ last'.dec # 81 => (data_socket' = DataFd /\ nOpen' = 1) ]_vars

\* 'Z' was read: the tick returned and drove the SignalState it found.
C10_Witness ==
  /\ last.rd = "byte"
  /\ last.dec = 90
  /\ run = "idle"
  /\ Connected
  /\ last.wr = <<>>
  /\ last.out = state
  /\ state = [tck |-> HDL_X, tms |-> HDL_X, tdi |-> HDL_X, trst |-> HDL_0, srst |-> HDL_1]

\* C11: every tick that returns without a fatal condition hands back all five
\* outputs, each a logic value, equal to the SignalState after the tick's
\* decoding: a write or reset byte decoded in the tick already shows in that
\* tick's outputs, and a tick with no connection, no data or any other byte
\* returns what the previous tick returned.
C11_OutputsFollowState ==
  [][ (run' = "idle" /\ last' # FreshLast /\ last'.fails = 0) =>
        /\ last'.out = state'
        /\ \A f \in {"tck", "tms", "tdi", "trst", "srst"} : last'.out[f] \in Logic
        /\ last'.dec \in WriteRange \cup ResetRange
             => last'.out = Effect(state, last'.dec)
        /\ last'.dec \notin WriteRange \cup ResetRange
             => /\ last'.out = state
                /\ last.out # NoOut => last'.out = last.out ]_vars

\* '5' was decoded after a reset byte, and the same tick returned (1, 0, 1)
\* on tck, tms, tdi.
C11_Witness ==
  /\ run = "idle"
  /\ last.dec = 53
  /\ last.fails = 0
  /\ last.out = [tck |-> HDL_1, tms |-> HDL_0, tdi |-> HDL_1, trst |-> HDL_0, srst |-> HDL_1]

\* A tick found no pending peer and returned the power-on outputs.
C11_WitnessIdle ==
  /\ run = "idle"
  /\ last.acc = "eagain"
  /\ last.out = PowerOn

\* C12: a read error or a write error on the active connection ends the tick
\* at the failing call, in either build of FAIL: no byte is decoded after a
\* failed read, the SignalState is as it was, no response byte is written and
\* the tick returns no outputs.
C12_IoErrorIsFatal ==
  [][ lmode' = "ok" =>
        /\ last'.rd = "err"
             => /\ last'.dec = NoByte
                /\ state' = state
                /\ last'.wr = <<>>
                /\ last'.out = NoOut
        /\ (last'.dec = 82 /\ last'.wr = <<>>)
             => /\ state' = state
                /\ last'.out = NoOut ]_vars

\* C13: a tick that decodes the write byte ('0'..'7' or 'r'..'u') that the
\* tick before it decoded leaves the SignalState as that first decoding left
\* it, whatever the SignalState was before the two.
C13_RepeatedWriteIdempotent ==
  [][ (last.dec \in WriteRange \cup ResetRange /\ last'.dec = last.dec)
        => state' = state ]_vars

\* '6' has been read and decoded twice in a row.
C13_Witness ==
  /\ rx = <<>>
  /\ last.rd = "byte"
  /\ last.dec = 54
  /\ state = [tck |-> HDL_1, tms |-> HDL_1, tdi |-> HDL_0, trst |-> HDL_0, srst |-> HDL_1]

\* C14: a listening endpoint one of whose setup steps (socket, bind, set
\* non-blocking, listen) failed is never accepted on or read through: the
\* engine stops at the failed step.
C14_SetupFailureIsFatal ==
  lmode # "ok"
    => /\ last.acc = "none"
       /\ last.rd = "none"
       /\ run \notin {"blocked_accept", "blocked_read"}

\* C15: the bytes written to a connection are the responses to the 'R' bytes
\* decoded on it, one per 'R' and in order.  Every step appends to the
\* connection's output what its tick wrote, so the claim is stated per step:
\* a step writes at most one byte; a byte is written only by a step that
\* decoded 'R' on a connection that is open, and it is '1' for a tdo of
\* driven-1 or weak-1 and '0' otherwise; a step that decoded 'R' wrote its
\* byte unless write() failed, which ends the run; and a step that decoded
\* nothing or anything else (accept alone, write, reset, quit, unknown byte,
\* no connection) wrote nothing.
C15_OnlyResponsesWritten ==
  [][ /\ Len(last'.wr) <= 1
      /\ last'.wr # <<>>
           => /\ last'.dec = 82
              /\ last'.wr = << IF last'.tdoRead \in {3, 7} THEN 49 ELSE 48 >>
              /\ data_socket' = DataFd
              /\ nOpen' = 1
      /\ (last'.dec = 82 /\ last'.wr = <<>>)
           => (last'.fails > 0 /\ run' \in {"exited", "stopped"})
      /\ last'.dec # 82 => last'.wr = <<>>
      /\ (data_socket = NoSocket /\ last'.acc # "conn") => last'.wr = <<>> ]_vars

\* 'R' was decoded with a high-impedance tdo, after the peer had driven tck
\* high: the tick wrote the one byte '0'.
C15_Witness ==
  /\ last.dec = 82
  /\ last.tdoRead = HDL_Z
  /\ last.wr = <<48>>
  /\ state.tck = HDL_1
  /\ Connected

\* C16: once a tick has set up the listening endpoint, no later step sets it
\* up again: create_socket (which removes the endpoint path, creates a socket
\* and binds it) is not called by any later tick, and the listening
\* descriptor and its mode stay what they are, whatever connects, quits or
\* disconnects in between.  (A step from "idle" that changes the tick record
\* is the start of a new tick.)
C16_SetupAtMostOnce ==
  [][ listen_socket # NoSocket
        => /\ listen_socket' = listen_socket
           /\ lmode' = lmode
           /\ (run = "idle" /\ last' # last) => last'.setup = "none" ]_vars

\* A peer quit and a later tick accepted the next peer on the endpoint the
\* first tick had set up.
C16_Witness ==
  /\ listen_socket = ListenFd
  /\ lmode = "ok"
  /\ last.setup = "none"
  /\ last.acc = "conn"
  /\ state.srst = HDL_1

\* A SignalState the claim allows: both resets driven, and tck, tms, tdi
\* either all unknown or all driven.
WellFormed(s) ==
  /\ s.trst \in {HDL_0, HDL_1}
  /\ s.srst \in {HDL_0, HDL_1}
  /\ \/ s.tck = HDL_X /\ s.tms = HDL_X /\ s.tdi = HDL_X
     \/ s.tck \in {HDL_0, HDL_1} /\ s.tms \in {HDL_0, HDL_1} /\ s.tdi \in {HDL_0, HDL_1}

\* C17: in every reachable state trst and srst are driven-0 or driven-1 and
\* tck, tms, tdi are all three unknown or all three driven-0/driven-1; no
\* other logic value is stored, a signal that is driven stays driven in every
\* step, and tck, tms, tdi leave unknown only in a step that decodes a byte
\* of '0'..'7'.
C17_SignalsWellFormed ==
  /\ WellFormed(state)
  /\ [][ /\ WellFormed(state')
         /\ \A f \in {"tck", "tms", "tdi", "trst", "srst"} :
              state[f] \in {HDL_0, HDL_1} => state'[f] \in {HDL_0, HDL_1}
         /\ (state.tck = HDL_X /\ state'.tck # HDL_X) => last'.dec \in WriteRange ]_vars

\* A reset byte was decoded after a write byte: all five signals are driven.
C17_Witness ==
  /\ last.dec = 115
  /\ state = [tck |-> HDL_0, tms |-> HDL_1, tdi |-> HDL_0, trst |-> HDL_0, srst |-> HDL_1]

\* What a tick of build u can make of the current state with tdo sampled:
\* the connection, the five signals, the bytes written and the outputs, for
\* each way the tick's events can fall; the build's name is left out, and so
\* is a tick in which a system call failed unless failures is TRUE.
TickOutcomes(u, tdo, failures) ==
  { [m EXCEPT !.unit = "either"] :
      m \in { x \in cosim_jtag_tick([Machine EXCEPT !.unit = u, !.last = FreshLast], tdo) :
                failures \/ x.last.fails = 0 } }

\* C18: the two variants of the tick engine are equivalent.  From every
\* reachable state and for every sampled tdo, cosim_jtag_tick (bit masks
\* into a struct) and vhpi_jtag_tick (set_state/set_reset calls into an
\* array) have the same possible results: same connection state, same five
\* signal values, same bytes written, same outputs.  For the exit() build of
\* cosim_jtag.c this includes the ticks in which a system call fails; for
\* its USE_VHPI build it is the ticks without such a failure, which are the
\* events the claim lists.
C18_VariantsEquivalent ==
  run = "idle" =>
    \A tdo \in Logic :
      /\ TickOutcomes("cosim_exit", tdo, TRUE) = TickOutcomes("vhpi_jtag", tdo, TRUE)
      /\ TickOutcomes("cosim_vhpi", tdo, FALSE) = TickOutcomes("vhpi_jtag", tdo, FALSE)

\* vhpi_jtag_tick decoded '3' in a state whose resets were (1, 0): its array
\* holds what the struct of cosim_jtag_tick would hold.
C18_Witness ==
  /\ unit = "vhpi_jtag"
  /\ last.dec = 51
  /\ last.fails = 0
  /\ state = [tck |-> HDL_0, tms |-> HDL_1, tdi |-> HDL_1, trst |-> HDL_1, srst |-> HDL_0]
  /\ last.out = state

=============================================================================
